---- MODULE Spec2Model ----
(***************************************************************************)
(* Model of src/src/ClimateMap.jsx: the curve smoother (chaikinSmooth),    *)
(* the zone classifier (assignZone, colorForWi, colorForThreshold), the    *)
(* rasterizer (buildRasterFromPoints), the contour layer (ContourLayer:    *)
(* yToLat, xToLon, flattenRings, ring processing) and the component state  *)
(* of ClimateMap (loadData, playback timer, previous/next year handlers).  *)
(*                                                                         *)
(* Numbers.  A JavaScript Number is a binary floating-point value.  The    *)
(* model keeps the shape of IEEE-754 arithmetic (round to nearest, ties to *)
(* even, gradual underflow) with a small significand: a number x is the    *)
(* integer x * 2^FRAC_BITS, and every arithmetic result is rounded to      *)
(* PRECISION significant bits by Fl.  NaN and the infinities are outside   *)
(* the numeric model; where the code can produce NaN (coercion of a        *)
(* non-number) the value is tagged.                                        *)
(***************************************************************************)
EXTENDS Integers, Sequences, FiniteSets, TLC

VARIABLES
  \* chaikinSmooth(latlngs, iterations): arguments, locals, position, result
  latlngs, iterations, pts, it, isClosed, smoothPc, smoothed,
  \* the two samples classified last (wi, zone, fill colour) and the contour
  \* line drawn last (threshold value, line colour)
  cells, line,
  \* buildRasterFromPoints(points): argument, position, result
  points, rasterPc, raster,
  \* ClimateMap: the state hooks, the mount effect's `cancelled`, the position
  \* of loadData, the response and its body, and the handler that ran last
  currentYear, isPlaying, climateData, loading, cancelled, loadPc, res, body, lastOp,
  \* ContourLayer's memo: its points prop, the contours d3 returned, the rings
  \* flattenRings emitted, the position, and the polylines
  layerPoints, cs, emitted, contourPc, polylines

smoothVars == <<latlngs, iterations, pts, it, isClosed, smoothPc, smoothed>>
zoneVars == <<cells, line>>
rasterVars == <<points, rasterPc, raster>>
appVars == <<currentYear, isPlaying, climateData, loading, cancelled, loadPc, res, body, lastOp>>
contourVars == <<layerPoints, cs, emitted, contourPc, polylines>>

vars == <<smoothVars, zoneVars, rasterVars, appVars, contourVars>>

(***************************************************************************)
(* Floating-point arithmetic                                               *)
(***************************************************************************)
\* significant bits of a number of the model (53 in an IEEE-754 double)
PRECISION == 4

\* binary digits after the point of the smallest positive number of the model
FRAC_BITS == 4

Abs(n) == IF n < 0 THEN -n ELSE n

RECURSIVE Pow2(_)
Pow2(k) == IF k <= 0 THEN 1 ELSE 2 * Pow2(k - 1)

\* the number 1.0
One == Pow2(FRAC_BITS)

\* the largest j >= 0 with 2^j * den <= a (0 when a < den)
RECURSIVE Log2Floor(_, _)
Log2Floor(a, den) == IF a < 2 * den THEN 0 ELSE 1 + Log2Floor(a, 2 * den)

\* a/den rounded to the nearest integer, ties to the even one (a >= 0, den > 0)
RoundHalfEven(a, den) ==
  LET f == a \div den
      r == a % den
  IN  IF 2 * r < den THEN f
      ELSE IF 2 * r > den THEN f + 1
      ELSE IF f % 2 = 0 THEN f ELSE f + 1

\* the number nearest to num/den (den > 0): PRECISION significant bits
Fl(num, den) ==
  LET a == Abs(num)
      j == Log2Floor(a, den)
      q == IF j >= PRECISION - 1 THEN Pow2(j - PRECISION + 1) ELSE 1
      r == RoundHalfEven(a, den * q) * q
  IN  IF num < 0 THEN -r ELSE r

FAdd(x, y) == Fl(x + y, 1)
FSub(x, y) == Fl(x - y, 1)
FMul(x, y) == Fl(x * y, One)
\* x / y for y > 0
FDiv(x, y) == Fl(x * One, y)

\* the literals 0.75 and 0.25
C075 == 3 * Pow2(FRAC_BITS - 2)
C025 == Pow2(FRAC_BITS - 2)

(***************************************************************************)
(* chaikinSmooth                                                           *)
(***************************************************************************)
\* the safety ceiling on the point count
MAX_POINTS == 12000

\* the default (and ContourLayer's) iteration count
DEFAULT_ITERATIONS == 4

\* const isClosed = pts.length > 2 && first point === last point
IsClosedCurve(p) ==
  /\ Len(p) > 2
  /\ p[1][1] = p[Len(p)][1]
  /\ p[1][2] = p[Len(p)][2]

\* Q = [0.75 * p[0] + 0.25 * q[0], 0.75 * p[1] + 0.25 * q[1]]
CutQ(p, q) ==
  <<FAdd(FMul(C075, p[1]), FMul(C025, q[1])),
    FAdd(FMul(C075, p[2]), FMul(C025, q[2]))>>

\* R = [0.25 * p[0] + 0.75 * q[0], 0.25 * p[1] + 0.75 * q[1]]
CutR(p, q) ==
  <<FAdd(FMul(C025, p[1]), FMul(C075, q[1])),
    FAdd(FMul(C025, p[2]), FMul(C075, q[2]))>>

\* the points pushed by the inner loop: for (i = startIndex; i < endIndex - 1; i++)
CutPoints(p, closed) ==
  LET n          == Len(p)
      startIndex == IF closed THEN 0 ELSE 1
      endIndex   == IF closed THEN n ELSE n - 1
      m          == IF endIndex - 1 > startIndex THEN endIndex - 1 - startIndex ELSE 0
  IN  [k \in 1..(2 * m) |->
         LET i == startIndex + ((k - 1) \div 2)
         IN  IF k % 2 = 1 THEN CutQ(p[i + 1], p[i + 2]) ELSE CutR(p[i + 1], p[i + 2])]

\* the re-closing step left out
ReCloseNever(next, closed) == next

\* lines 39-41: a closed curve gets its first point appended when the cut left
\* it open
ReClose(next, closed) ==
  IF closed /\ (Len(next) = 0 \/ next[1][1] # next[Len(next)][1]
                              \/ next[1][2] # next[Len(next)][2])
  THEN Append(next, <<next[1][1], next[1][2]>>)
  ELSE next

\* one pass of the for loop over `it`: the value of `next` assigned to pts
ChaikinIteration(p, closed) ==
  LET cut  == CutPoints(p, closed)
      next == IF closed THEN cut ELSE <<p[1]>> \o cut \o <<p[Len(p)]>>
  IN  ReClose(next, closed)

\* the loop from iteration `i` on, with its break
RECURSIVE SmoothLoop(_, _, _, _)
SmoothLoop(p, closed, i, iters) ==
  IF i >= iters THEN p
  ELSE LET next == ChaikinIteration(p, closed)
       IN  IF Len(next) > MAX_POINTS THEN next
           ELSE SmoothLoop(next, closed, i + 1, iters)

\* chaikinSmooth(latlngs, iterations) as a function of its arguments
chaikinSmooth(ll, iters) ==
  IF Len(ll) < 3 THEN ll ELSE SmoothLoop(ll, IsClosedCurve(ll), 0, iters)

(***************************************************************************)
(* chaikinSmooth, statement by statement                                   *)
(***************************************************************************)
\* longest small input curve
MaxLen == 5

\* largest requested iteration count
MaxIterations == 4

\* coordinates of the small input curves
SmoothPoints == {<<0, 0>>, <<4 * One, 0>>, <<4 * One, 4 * One>>}

RECURSIVE SeqsUpTo(_, _)
SeqsUpTo(S, n) ==
  IF n = 0 THEN {<<>>}
  ELSE LET shorter == SeqsUpTo(S, n - 1)
       IN  shorter \cup {Append(s, x) : s \in {t \in shorter : Len(t) = n - 1}, x \in S}

\* a ring of n points, closed iff `closed`, no two neighbours equal
LongCurve(n, closed) ==
  [k \in 1..n |->
     IF k = n /\ closed THEN <<0, 0>>
     ELSE IF k = n THEN <<4 * One, 4 * One>>
     ELSE <<(k % 2) * One, ((k \div 2) % 2) * One>>]

\* input sizes around the point where one iteration crosses the ceiling
LongCurves ==
  {LongCurve((MAX_POINTS \div 2) + d, c) : d \in 1..3, c \in BOOLEAN}

SmoothInputs == SeqsUpTo(SmoothPoints, MaxLen) \cup LongCurves

\* the zone classifier not in use
IdleZone ==
  /\ cells = <<>>
  /\ line = <<>>

\* buildRasterFromPoints not in use
IdleRaster ==
  /\ points = <<>>
  /\ rasterPc = "idle"
  /\ raster = <<>>

\* the component not mounted
IdleApp ==
  /\ currentYear = 0
  /\ isPlaying = FALSE
  /\ climateData = <<>>
  /\ loading = TRUE
  /\ cancelled = FALSE
  /\ loadPc = "idle"
  /\ res = [state |-> "none", ok |-> FALSE]
  /\ body = [parse |-> "none", json |-> <<>>]
  /\ lastOp = [op |-> "none", from |-> 0]

\* ContourLayer not rendered
IdleContour ==
  /\ layerPoints = <<>>
  /\ cs = <<>>
  /\ emitted = <<>>
  /\ contourPc = "idle"
  /\ polylines = <<>>

\* chaikinSmooth not in use
IdleSmooth ==
  /\ latlngs = <<>>
  /\ iterations = 0
  /\ pts = <<>>
  /\ it = 0
  /\ isClosed = FALSE
  /\ smoothPc = "idle"
  /\ smoothed = <<>>

InitSmooth ==
  /\ IdleContour
  /\ IdleZone
  /\ IdleRaster
  /\ IdleApp
  /\ latlngs \in SmoothInputs
  /\ iterations \in 0..MaxIterations
  /\ pts = <<>>
  /\ it = 0
  /\ isClosed = FALSE
  /\ smoothPc = "entry"
  /\ smoothed = <<>>

\* lines 22-24: the early return, then pts and isClosed
SmoothEnter ==
  /\ smoothPc = "entry"
  /\ IF Len(latlngs) < 3
     THEN /\ smoothed' = latlngs
          /\ smoothPc' = "returned"
          /\ UNCHANGED <<pts, isClosed>>
     ELSE /\ pts' = latlngs
          /\ isClosed' = IsClosedCurve(latlngs)
          /\ smoothPc' = "loop"
          /\ UNCHANGED smoothed
  /\ UNCHANGED <<latlngs, iterations, it>>
  /\ UNCHANGED <<zoneVars, rasterVars, appVars, contourVars>>

\* the loop body without the break of line 43
SmoothIterateNoBreak ==
  /\ smoothPc = "loop"
  /\ it < iterations
  /\ pts' = ChaikinIteration(pts, isClosed)
  /\ smoothPc' = "loop"
  /\ it' = it + 1
  /\ UNCHANGED <<latlngs, iterations, isClosed, smoothed>>
  /\ UNCHANGED <<zoneVars, rasterVars, appVars, contourVars>>

\* lines 25-44: one pass of the loop body, the break, and it++
SmoothIterate ==
  /\ smoothPc = "loop"
  /\ it < iterations
  /\ pts' = ChaikinIteration(pts, isClosed)
  /\ IF Len(pts') > MAX_POINTS
     THEN smoothPc' = "break" /\ it' = it
     ELSE smoothPc' = "loop" /\ it' = it + 1
  /\ UNCHANGED <<latlngs, iterations, isClosed, smoothed>>
  /\ UNCHANGED <<zoneVars, rasterVars, appVars, contourVars>>

\* line 45: return pts
SmoothReturn ==
  /\ \/ smoothPc = "loop" /\ it >= iterations
     \/ smoothPc = "break"
  /\ smoothed' = pts
  /\ smoothPc' = "returned"
  /\ UNCHANGED <<latlngs, iterations, pts, it, isClosed>>
  /\ UNCHANGED <<zoneVars, rasterVars, appVars, contourVars>>

NextSmooth == SmoothEnter \/ SmoothIterate \/ SmoothReturn

SpecSmooth == InitSmooth /\ [][NextSmooth]_vars

(***************************************************************************)
(* Zone classifier                                                         *)
(***************************************************************************)
ZONE_BOUNDARIES == <<15, 45, 85, 180, 240>>

\* the keys of climateZones, in order
ZONE_ORDER == <<"I", "II", "III", "IV", "V", "VI">>

\* climateZones[zone].color
ZoneColor(zone) ==
  CASE zone = "I"   -> "#2563eb"
    [] zone = "II"  -> "#059669"
    [] zone = "III" -> "#65a30d"
    [] zone = "IV"  -> "#d97706"
    [] zone = "V"   -> "#dc2626"
    [] zone = "VI"  -> "#7c2d12"

\* assignZone with the first comparison inclusive
assignZoneInclusive(wi) ==
  IF wi <= 15 THEN "I"
  ELSE IF wi < 45 THEN "II"
  ELSE IF wi < 85 THEN "III"
  ELSE IF wi < 180 THEN "IV"
  ELSE IF wi < 240 THEN "V"
  ELSE "VI"

assignZone(wi) ==
  IF wi < 15 THEN "I"
  ELSE IF wi < 45 THEN "II"
  ELSE IF wi < 85 THEN "III"
  ELSE IF wi < 180 THEN "IV"
  ELSE IF wi < 240 THEN "V"
  ELSE "VI"

colorForWi(wi) ==
  IF wi < 15 THEN ZoneColor("I")
  ELSE IF wi < 45 THEN ZoneColor("II")
  ELSE IF wi < 85 THEN ZoneColor("III")
  ELSE IF wi < 180 THEN ZoneColor("IV")
  ELSE IF wi < 240 THEN ZoneColor("V")
  ELSE ZoneColor("VI")

\* colorForThreshold with strict comparisons
colorForThresholdStrict(t) ==
  IF t < 15 THEN ZoneColor("II")
  ELSE IF t < 45 THEN ZoneColor("III")
  ELSE IF t < 85 THEN ZoneColor("IV")
  ELSE IF t < 180 THEN ZoneColor("V")
  ELSE ZoneColor("VI")

colorForThreshold(t) ==
  IF t <= 15 THEN ZoneColor("II")
  ELSE IF t <= 45 THEN ZoneColor("III")
  ELSE IF t <= 85 THEN ZoneColor("IV")
  ELSE IF t <= 180 THEN ZoneColor("V")
  ELSE ZoneColor("VI")

\* largest value classified
MaxWi == 250

\* values are taken within this distance of a boundary
Near == 2

WiValues ==
  {v \in (0 - Near)..MaxWi :
     \/ v \in {0 - Near, 0, MaxWi}
     \/ \E i \in DOMAIN ZONE_BOUNDARIES :
          v - ZONE_BOUNDARIES[i] \in (0 - Near)..Near}

InitZone ==
  /\ IdleContour
  /\ IdleSmooth
  /\ IdleRaster
  /\ IdleApp
  /\ cells = <<>>
  /\ line = <<>>

\* a sample gets its zone (generateGridData, line 77) and its cell its fill
\* colour (ZoneRasterLayer, line 194)
ClassifySample(wi) ==
  /\ cells' = (IF Len(cells) = 2 THEN <<cells[2]>> ELSE cells)
                \o <<[wi |-> wi, zone |-> assignZone(wi), color |-> colorForWi(wi)]>>
  /\ UNCHANGED line
  /\ UNCHANGED <<smoothVars, rasterVars, appVars, contourVars>>

\* a contour line of threshold t gets its colour (ContourLayer, line 175)
DrawLine(t) ==
  /\ line' = <<[value |-> t, color |-> colorForThreshold(t)]>>
  /\ UNCHANGED cells
  /\ UNCHANGED <<smoothVars, rasterVars, appVars, contourVars>>

NextZone ==
  \/ \E wi \in WiValues : ClassifySample(wi)
  \/ \E t \in WiValues : DrawLine(t)

SpecZone == InitZone /\ [][NextZone]_vars

(***************************************************************************)
(* buildRasterFromPoints                                                   *)
(***************************************************************************)
\* a value of the values array: a number, or the NaN the array is filled with
NaN == [nan |-> TRUE, v |-> 0]
Num(v) == [nan |-> FALSE, v |-> v]

\* a set of numbers as an array sorted by (a, b) => a - b
RECURSIVE SortAscending(_)
SortAscending(S) ==
  IF S = {} THEN <<>>
  ELSE LET lo == CHOOSE x \in S : \A y \in S : x <= y
       IN  <<lo>> \o SortAscending(S \ {lo})

\* Array.from(new Set(points.map(p => p.lat))).sort((a,b)=>a-b)
AxisOf(S) == SortAscending(S)

\* new Map(axis.map((v,i)=>[v,i])).get(v): the 0-based index, or -1 for undefined
IndexIn(axis, v) ==
  IF \E i \in DOMAIN axis : axis[i] = v
  THEN (CHOOSE i \in DOMAIN axis : axis[i] = v) - 1
  ELSE -1

\* the index transposed
CellIndexTransposed(xi, yi, width) == yi + xi * width

\* xi + yi * width
CellIndex(xi, yi, width) == xi + yi * width

\* arr[idx] = v on a JavaScript array (idx >= 0): an index past the end grows
\* the array, the slots between being empty
ArrayWrite(arr, idx, v) ==
  IF idx < Len(arr) THEN [arr EXCEPT ![idx + 1] = v]
  ELSE [k \in 1..(idx + 1) |->
          IF k <= Len(arr) THEN arr[k] ELSE IF k = idx + 1 THEN v ELSE NaN]

\* for (const p of points) { ... values[xi + yi * width] = p.wi; }, from point k on
RECURSIVE FillValues(_, _, _, _, _)
FillValues(values, ps, k, lats, lons) ==
  IF k > Len(ps) THEN values
  ELSE LET yi == IndexIn(lats, ps[k].lat)
           xi == IndexIn(lons, ps[k].lon)
       IN  IF yi = -1 \/ xi = -1
           THEN FillValues(values, ps, k + 1, lats, lons)
           ELSE FillValues(ArrayWrite(values, CellIndex(xi, yi, Len(lons)), Num(ps[k].wi)),
                           ps, k + 1, lats, lons)

\* +(x).toFixed(3) for x >= 0: the nearest multiple of 0.001 (the larger of two
\* equally near ones), read back as a number
ToFixed3(x) ==
  LET n == (2 * 1000 * x + One) \div (2 * One)
  IN  Fl(n * One, 1000)

\* the literal 0.1
C01 == Fl(One, 10)

\* the result: <<>> for null, <<object>> otherwise
buildRasterFromPoints(ps) ==
  IF Len(ps) = 0 THEN <<>>
  ELSE LET lats   == AxisOf({ps[k].lat : k \in DOMAIN ps})
           lons   == AxisOf({ps[k].lon : k \in DOMAIN ps})
           height == Len(lats)
           width  == Len(lons)
       IN  <<[values |-> FillValues([k \in 1..(width * height) |-> NaN], ps, 1, lats, lons),
              width  |-> width,
              height |-> height,
              lats   |-> lats,
              lons   |-> lons,
              dLat   |-> IF Len(lats) >= 2 THEN ToFixed3(FSub(lats[2], lats[1])) ELSE C01,
              dLon   |-> IF Len(lons) >= 2 THEN ToFixed3(FSub(lons[2], lons[1])) ELSE C01]>>

\* most samples of an input
MaxSamples == 4

\* the latitudes, longitudes and values of the samples
LatVals == {2 * One, 3 * One}
LonVals == {5 * One, 7 * One}
WiVals == {7, 9}

SampleSets ==
  SeqsUpTo([lat : LatVals, lon : LonVals, wi : WiVals], MaxSamples)

InitRaster ==
  /\ IdleContour
  /\ IdleSmooth
  /\ IdleZone
  /\ IdleApp
  /\ points \in SampleSets
  /\ rasterPc = "call"
  /\ raster = <<>>

BuildRaster ==
  /\ rasterPc = "call"
  /\ raster' = buildRasterFromPoints(points)
  /\ rasterPc' = "returned"
  /\ UNCHANGED points
  /\ UNCHANGED <<smoothVars, zoneVars, appVars, contourVars>>

NextRaster == BuildRaster

SpecRaster == InitRaster /\ [][NextRaster]_vars

(***************************************************************************)
(* ClimateMap: loadData and the year handlers                              *)
(*                                                                         *)
(* A dataset is { metadata, data }; data maps year keys to entries.  An    *)
(* array entry is kept by its length, any other entry as a non-array.  A   *)
(* parsed JSON value without a usable data object (null, a primitive, an   *)
(* object with no or a falsy data) is hasData = FALSE.  A value that may   *)
(* be null is <<>> or <<value>>.                                           *)
(***************************************************************************)
YEARS == <<2022, 2023, 2024>>

\* latMin, latMax, lonMin, lonMax in tenths of a degree (step = 0.1)
LAT_MIN == 240
LAT_MAX == 500
LON_MIN == 1230
LON_MAX == 1560

\* the passes of for (v = min; v <= max + 1e-9; v = Math.round((v + step) * 10) / 10)
GridSteps(min, max) == IF max >= min THEN max - min + 1 ELSE 0

ArrayEntry(n) == [isArray |-> TRUE, len |-> n]
OtherEntry == [isArray |-> FALSE, len |-> 0]

generateGridData ==
  LET pointsPerYear == GridSteps(LAT_MIN, LAT_MAX) * GridSteps(LON_MIN, LON_MAX)
  IN  [metadata |-> [region |-> "Senkaku_to_Kurils_0.1deg", total_points |-> pointsPerYear],
       hasData  |-> TRUE,
       data     |-> [y \in {YEARS[i] : i \in DOMAIN YEARS} |-> ArrayEntry(pointsPerYear)]]

\* Object.values(data).reduce((s, arr) => s + (Array.isArray(arr) ? arr.length : 0), 0)
RECURSIVE SumLengths(_, _)
SumLengths(data, keys) ==
  IF keys = {} THEN 0
  ELSE LET k == CHOOSE x \in keys : TRUE
       IN  (IF data[k].isArray THEN data[k].len ELSE 0) + SumLengths(data, keys \ {k})

\* totalLen counting the entries instead of their samples
TotalLenCountsEntries(json) ==
  IF json.hasData THEN Cardinality(DOMAIN json.data) ELSE 0

\* const totalLen = Object.values(json?.data || {}).reduce(...)
TotalLen(json) ==
  IF json.hasData THEN SumLengths(json.data, DOMAIN json.data) ELSE 0

\* the decimal digits of n >= 0, as String(n) writes them
RECURSIVE Digits(_)
Digits(n) == IF n < 10 THEN <<n>> ELSE Append(Digits(n \div 10), n % 10)

\* String(a) < String(b) by code units
RECURSIVE SeqLess(_, _)
SeqLess(a, b) ==
  IF Len(b) = 0 THEN FALSE
  ELSE IF Len(a) = 0 THEN TRUE
  ELSE IF a[1] # b[1] THEN a[1] < b[1]
  ELSE SeqLess(Tail(a), Tail(b))

\* Array.prototype.sort() without a comparator: by String(x)
RECURSIVE SortDefault(_)
SortDefault(S) ==
  IF S = {} THEN <<>>
  ELSE LET lo == CHOOSE x \in S : \A y \in S \ {x} : SeqLess(Digits(x), Digits(y))
       IN  <<lo>> \o SortDefault(S \ {lo})

\* Object.keys(climateData?.data || {}).map(Number).sort()
YearsOf(cd) ==
  IF Len(cd) = 0 \/ ~cd[1].hasData THEN <<>> ELSE SortDefault(DOMAIN cd[1].data)

\* years.indexOf(y), 0-based
IndexOfYear(years, y) == IndexIn(years, y)

\* the value of years[i] for an index that is no element's: undefined
Undefined == 0 - 1

YearAt(years, i) == IF i >= 0 /\ i < Len(years) THEN years[i + 1] ELSE Undefined

\* (currentIndex + 1) % years.length, then years[nextIndex]
NextYearOf(years, y) ==
  IF Len(years) = 0 THEN Undefined
  ELSE YearAt(years, (IndexOfYear(years, y) + 1) % Len(years))

\* currentIndex > 0 ? currentIndex - 1 : years.length - 1, then years[prevIndex]
PrevYearOf(years, y) ==
  LET currentIndex == IndexOfYear(years, y)
  IN  YearAt(years, IF currentIndex > 0 THEN currentIndex - 1 ELSE Len(years) - 1)

\* year keys an external feed may have
FeedYears == {100, 200, 1000, 2023}

\* most samples of one year of a feed
MaxFeedLen == 1

FeedEntries == {OtherEntry} \cup {ArrayEntry(n) : n \in 0..MaxFeedLen}

FeedData == UNION {[ks -> FeedEntries] : ks \in SUBSET FeedYears}

\* what res.json() may resolve to
FeedJson ==
  {[metadata |-> [region |-> "feed", total_points |-> 0], hasData |-> TRUE, data |-> d] :
      d \in FeedData}
  \cup {[metadata |-> [region |-> "feed", total_points |-> 0], hasData |-> FALSE, data |-> <<>>]}

\* the component mounted: initial hook values, loadData called, fetch pending
InitApp ==
  /\ IdleContour
  /\ IdleSmooth
  /\ IdleZone
  /\ IdleRaster
  /\ currentYear = YEARS[1]
  /\ isPlaying = FALSE
  /\ climateData = <<>>
  /\ loading = TRUE
  /\ cancelled = FALSE
  /\ loadPc = "fetch"
  /\ res = [state |-> "pending", ok |-> FALSE]
  /\ body = [parse |-> "none", json |-> <<>>]
  /\ lastOp = [op |-> "none", from |-> 0]

\* lines 232-236: if (!cancelled) { setClimateData(generateGridData()); setLoading(false); }
Fallback ==
  /\ IF cancelled
     THEN UNCHANGED <<climateData, loading>>
     ELSE climateData' = <<generateGridData>> /\ loading' = FALSE
  /\ loadPc' = "settled"

\* the fetch promise rejects: catch, then the fallback
FetchRejects ==
  /\ loadPc = "fetch"
  /\ res' = [state |-> "rejected", ok |-> FALSE]
  /\ Fallback
  /\ UNCHANGED <<currentYear, isPlaying, cancelled, body, lastOp>>
  /\ UNCHANGED <<smoothVars, zoneVars, rasterVars, contourVars>>

\* the fetch promise resolves: res.ok decides between res.json() and the fallback
FetchResolves(ok) ==
  /\ loadPc = "fetch"
  /\ res' = [state |-> "resolved", ok |-> ok]
  /\ IF ok
     THEN /\ loadPc' = "json"
          /\ body' = [parse |-> "pending", json |-> <<>>]
          /\ UNCHANGED <<climateData, loading>>
     ELSE /\ Fallback
          /\ UNCHANGED body
  /\ UNCHANGED <<currentYear, isPlaying, cancelled, lastOp>>
  /\ UNCHANGED <<smoothVars, zoneVars, rasterVars, contourVars>>

\* res.json() rejects: catch, then the fallback
JsonThrows ==
  /\ loadPc = "json"
  /\ body' = [parse |-> "threw", json |-> <<>>]
  /\ Fallback
  /\ UNCHANGED <<currentYear, isPlaying, cancelled, res, lastOp>>
  /\ UNCHANGED <<smoothVars, zoneVars, rasterVars, contourVars>>

\* res.json() resolves: lines 222-230, then the fallback unless it returned
JsonResolves(json) ==
  /\ loadPc = "json"
  /\ body' = [parse |-> "parsed", json |-> <<json>>]
  /\ IF ~cancelled /\ TotalLen(json) > 0
     THEN /\ climateData' = <<json>>
          /\ loading' = FALSE
          /\ loadPc' = "settled"
     ELSE Fallback
  /\ UNCHANGED <<currentYear, isPlaying, cancelled, res, lastOp>>
  /\ UNCHANGED <<smoothVars, zoneVars, rasterVars, contourVars>>

\* the mount effect's cleanup
Unmount ==
  /\ loadPc # "idle"
  /\ ~cancelled
  /\ cancelled' = TRUE
  /\ UNCHANGED <<currentYear, isPlaying, climateData, loading, loadPc, res, body, lastOp>>
  /\ UNCHANGED <<smoothVars, zoneVars, rasterVars, contourVars>>

\* the buttons exist once the loading screen is gone
ControlsShown == loadPc # "idle" /\ ~cancelled /\ ~loading

handlePlayPause ==
  /\ ControlsShown
  /\ isPlaying' = ~isPlaying
  /\ UNCHANGED <<currentYear, climateData, loading, cancelled, loadPc, res, body, lastOp>>
  /\ UNCHANGED <<smoothVars, zoneVars, rasterVars, contourVars>>

\* the interval callback of the playback effect
Tick ==
  /\ ControlsShown
  /\ isPlaying
  /\ currentYear' = NextYearOf(YearsOf(climateData), currentYear)
  /\ lastOp' = [op |-> "tick", from |-> currentYear]
  /\ UNCHANGED <<isPlaying, climateData, loading, cancelled, loadPc, res, body>>
  /\ UNCHANGED <<smoothVars, zoneVars, rasterVars, contourVars>>

handlePrevYear ==
  /\ ControlsShown
  /\ IF Len(climateData) = 0
     THEN UNCHANGED <<currentYear, lastOp>>
     ELSE /\ currentYear' = PrevYearOf(YearsOf(climateData), currentYear)
          /\ lastOp' = [op |-> "prev", from |-> currentYear]
  /\ UNCHANGED <<isPlaying, climateData, loading, cancelled, loadPc, res, body>>
  /\ UNCHANGED <<smoothVars, zoneVars, rasterVars, contourVars>>

handleNextYear ==
  /\ ControlsShown
  /\ IF Len(climateData) = 0
     THEN UNCHANGED <<currentYear, lastOp>>
     ELSE /\ currentYear' = NextYearOf(YearsOf(climateData), currentYear)
          /\ lastOp' = [op |-> "next", from |-> currentYear]
  /\ UNCHANGED <<isPlaying, climateData, loading, cancelled, loadPc, res, body>>
  /\ UNCHANGED <<smoothVars, zoneVars, rasterVars, contourVars>>

Next ==
  \/ FetchRejects
  \/ \E ok \in BOOLEAN : FetchResolves(ok)
  \/ JsonThrows
  \/ \E json \in FeedJson : JsonResolves(json)
  \/ Unmount
  \/ handlePlayPause
  \/ Tick
  \/ handlePrevYear
  \/ handleNextYear

Spec == InitApp /\ [][Next]_vars

(***************************************************************************)
(* ContourLayer                                                            *)
(*                                                                         *)
(* A JavaScript value of the nested coordinate structure is a node:        *)
(* a number, null (any value that is neither an array nor iterable), a     *)
(* string of two letters, undefined (a missing element), or an array.      *)
(***************************************************************************)
NumNode(x) == [t |-> "num", v |-> x, e |-> <<>>]
NullNode == [t |-> "null", v |-> 0, e |-> <<>>]
StrNode == [t |-> "str", v |-> 0, e |-> <<>>]
UndefNode == [t |-> "undef", v |-> 0, e |-> <<>>]
ArrNode(s) == [t |-> "arr", v |-> 0, e |-> s]

IsArray(node) == node.t = "arr"

\* node[i] for a 0-based index
ElementAt(node, i) == IF IsArray(node) /\ i < Len(node.e) THEN node.e[i + 1] ELSE UndefNode

\* walk(node): the rings it pushes, in order
RECURSIVE Walk(_)
RECURSIVE WalkChildren(_, _)
Walk(node) ==
  IF ~IsArray(node) THEN <<>>
  ELSE IF /\ Len(node.e) > 1
          /\ IsArray(ElementAt(node, 0))
          /\ ElementAt(ElementAt(node, 0), 0).t = "num"
       THEN <<node>>
       ELSE WalkChildren(node.e, 1)
WalkChildren(children, k) ==
  IF k > Len(children) THEN <<>>
  ELSE Walk(children[k]) \o WalkChildren(children, k + 1)

flattenRings(coords) == Walk(coords)

\* the conversion of a value to a number that Math.min and Math.max apply
RECURSIVE ToNumber(_)
ToNumber(node) ==
  CASE node.t = "num"   -> Num(node.v)
    [] node.t = "null"  -> Num(0)
    [] node.t = "undef" -> NaN
    [] node.t = "str"   -> NaN
    [] node.t = "arr"   ->
         IF Len(node.e) = 0 THEN Num(0)
         ELSE IF Len(node.e) > 1 THEN NaN
         ELSE IF node.e[1].t \in {"null", "undef"} THEN Num(0)
         ELSE ToNumber(node.e[1])

Min(a, b) == IF a < b THEN a ELSE b
Max(a, b) == IF a > b THEN a ELSE b

\* the reprojection without the clamp
ReprojectUnclamped(axis, c) ==
  LET n == Len(axis)
      t == IF n = 1 THEN 0 ELSE Fl(c * One, (n - 1) * One)
  IN  FAdd(axis[1], FMul(t, FSub(axis[n], axis[1])))

\* the reprojection of one axis: Math.max(0, Math.min(n - 1, c)), then
\* t = n === 1 ? 0 : clamped / (n - 1), then axis[0] + t * (axis[n - 1] - axis[0])
Reproject(axis, c) ==
  LET n       == Len(axis)
      clamped == Max(0, Min((n - 1) * One, c))
      t       == IF n = 1 THEN 0 ELSE FDiv(clamped, (n - 1) * One)
  IN  FAdd(axis[1], FMul(t, FSub(axis[n], axis[1])))

\* yToLat(y) and xToLon(x) on a value of any type
yToLat(r, y) ==
  LET c == ToNumber(y) IN IF c.nan THEN NaN ELSE Num(Reproject(r.lats, c.v))
xToLon(r, x) ==
  LET c == ToNumber(x) IN IF c.nan THEN NaN ELSE Num(Reproject(r.lons, c.v))

\* ([x, y]) => ... applied to an element: destructuring throws a TypeError on a
\* value that is not iterable
Destructures(el) == el.t \in {"arr", "str"}
FirstOf(el) == IF el.t = "str" THEN StrNode ELSE ElementAt(el, 0)
SecondOf(el) == IF el.t = "str" THEN StrNode ELSE ElementAt(el, 1)

\* lines 157-159: ring.map(...).filter(...), the finite pairs in order
RECURSIVE MapFilter(_, _, _)
MapFilter(r, ring, k) ==
  IF k > Len(ring.e) THEN <<>>
  ELSE LET lat == yToLat(r, SecondOf(ring.e[k]))
           lon == xToLon(r, FirstOf(ring.e[k]))
       IN  (IF lat.nan \/ lon.nan THEN <<>> ELSE <<<<lat.v, lon.v>>>>)
             \o MapFilter(r, ring, k + 1)

RingThrows(ring) == \E k \in DOMAIN ring.e : ~Destructures(ring.e[k])

\* the ring processing of contour c throws
ContourThrows(c) ==
  LET rings == flattenRings(c.coordinates)
  IN  \E k \in DOMAIN rings : Len(rings[k].e) >= 2 /\ RingThrows(rings[k])

\* lines 155-164 for the rings of one contour, from ring k on
RECURSIVE RingPolylines(_, _, _, _)
RingPolylines(r, rings, value, k) ==
  IF k > Len(rings) THEN <<>>
  ELSE LET ring == rings[k]
           ll   == MapFilter(r, ring, 1)
       IN  (IF ~IsArray(ring) \/ Len(ring.e) < 2 \/ Len(ll) < 2 THEN <<>>
            ELSE <<[latlngs |-> chaikinSmooth(ll, DEFAULT_ITERATIONS), value |-> value]>>)
             \o RingPolylines(r, rings, value, k + 1)

\* all rings flattenRings emits over the contours, in order
RECURSIVE AllRings(_, _)
AllRings(contours, k) ==
  IF k > Len(contours) THEN <<>>
  ELSE flattenRings(contours[k].coordinates) \o AllRings(contours, k + 1)

\* lines 152-165 from contour k on
RECURSIVE ContourPolylines(_, _, _)
ContourPolylines(r, contours, k) ==
  IF k > Len(contours) THEN <<>>
  ELSE RingPolylines(r, flattenRings(contours[k].coordinates), contours[k].value, 1)
         \o ContourPolylines(r, contours, k + 1)

\* a complete grid over two axes in row order, every value 50
GridPoints(lats, lons) ==
  [k \in 1..(Len(lats) * Len(lons)) |->
     [lat |-> lats[((k - 1) \div Len(lons)) + 1],
      lon |-> lons[((k - 1) % Len(lons)) + 1],
      wi  |-> 50]]

\* the useMemo callback of ContourLayer: raster, contours (d3's result is the
\* variable cs), flattening, reprojection, smoothing
ContourMemo ==
  /\ contourPc = "render"
  /\ LET built == buildRasterFromPoints(layerPoints)
     IN  IF Len(built) = 0 \/ built[1].width < 2 \/ built[1].height < 2
         THEN /\ polylines' = <<>>
              /\ emitted' = <<>>
              /\ contourPc' = "returned"
         ELSE LET throwing == {k \in DOMAIN cs : ContourThrows(cs[k])}
                  reached  == IF throwing = {} THEN Len(cs)
                              ELSE CHOOSE k \in throwing : \A j \in throwing : k <= j
              IN  /\ emitted' = AllRings(SubSeq(cs, 1, reached), 1)
                  /\ IF throwing # {}
                     THEN /\ polylines' = <<>>
                          /\ contourPc' = "threw"
                     ELSE /\ polylines' = ContourPolylines(built[1], cs, 1)
                          /\ contourPc' = "returned"
  /\ UNCHANGED <<layerPoints, cs>>
  /\ UNCHANGED <<smoothVars, zoneVars, rasterVars, appVars>>

NextContour == ContourMemo

(***************************************************************************)
(* ContourLayer on nested structures of any shape                          *)
(***************************************************************************)
\* deepest nesting of a structure
MaxDepth == 3

\* longest array of a structure
MaxArrLen == 2

RECURSIVE NodesUpTo(_)
NodesUpTo(d) ==
  IF d = 0 THEN {NumNode(One), NullNode, StrNode}
  ELSE LET lower == NodesUpTo(d - 1)
       IN  lower \cup {ArrNode(q) : q \in SeqsUpTo(lower, MaxArrLen)}

InitFlatten ==
  /\ IdleSmooth
  /\ IdleZone
  /\ IdleRaster
  /\ IdleApp
  /\ layerPoints = GridPoints(<<2 * One, 3 * One>>, <<5 * One, 7 * One>>)
  /\ cs \in {<<[value |-> ZONE_BOUNDARIES[2], coordinates |-> n]>> : n \in NodesUpTo(MaxDepth)}
  /\ emitted = <<>>
  /\ contourPc = "render"
  /\ polylines = <<>>

SpecFlatten == InitFlatten /\ [][NextContour]_vars

(***************************************************************************)
(* ContourLayer on well-formed contours                                    *)
(***************************************************************************)
\* most points of a ring
MaxRingLen == 4

\* the axes of the rasters: one with a single value, an evenly spaced one, and
\* one whose extent 13 - 1.5 is no number of PRECISION bits
AxisChoices ==
  {<<2 * One>>,
   <<2 * One, 3 * One, 4 * One>>,
   <<One + (One \div 2), 13 * One>>}

\* grid-space coordinates (x, y), inside and outside the grid
RingPoints ==
  {<<0 - One, 0 - One>>, <<0, 0>>, <<One \div 2, One>>,
   <<One, 2 * One>>, <<3 * One, 3 * One>>}

PairNode(xy) == ArrNode(<<NumNode(xy[1]), NumNode(xy[2])>>)

RingNode(ring) == ArrNode([k \in DOMAIN ring |-> PairNode(ring[k])])

\* a MultiPolygon's coordinates: polygons of rings of pairs
RingInputs ==
  {ArrNode(<<ArrNode(<<RingNode(ring)>>)>>) :
     ring \in {q \in SeqsUpTo(RingPoints, MaxRingLen) : Len(q) >= 2}}

InitContour ==
  /\ IdleSmooth
  /\ IdleZone
  /\ IdleRaster
  /\ IdleApp
  /\ layerPoints \in {GridPoints(la, lo) : la \in AxisChoices, lo \in AxisChoices}
  /\ cs \in {<<[value |-> ZONE_BOUNDARIES[2], coordinates |-> n]>> : n \in RingInputs}
  /\ emitted = <<>>
  /\ contourPc = "render"
  /\ polylines = <<>>

SpecContour == InitContour /\ [][NextContour]_vars

(***************************************************************************)
(* Claims about chaikinSmooth                                              *)
(***************************************************************************)
InputOpen == Len(latlngs) >= 3 /\ latlngs[1] # latlngs[Len(latlngs)]

InputClosed == Len(latlngs) >= 3 /\ latlngs[1] = latlngs[Len(latlngs)]

\* passes of the loop body completed so far
PassesDone == IF smoothPc = "break" THEN it + 1 ELSE it

\* C1: an open curve of N >= 3 points smoothed with one iteration comes back
\* with exactly 2*(N-2) + 2 points, its first and last point being the
\* input's first and last point.
C1_OpenCurvePointCount ==
  (smoothPc = "returned" /\ iterations = 1 /\ InputOpen) =>
     /\ Len(smoothed) = 2 * (Len(latlngs) - 2) + 2
     /\ smoothed[1] = latlngs[1]
     /\ smoothed[Len(smoothed)] = latlngs[Len(latlngs)]

\* C2: for a closed input ring the sequence held after every iteration, and the
\* returned sequence, is closed (first point = last point); the closed/open
\* classification made before the first iteration is the one every iteration
\* uses.
C2_ClosedStaysClosed ==
  /\ (smoothPc # "entry" /\ Len(latlngs) >= 3) => (isClosed <=> InputClosed)
  /\ (InputClosed /\ smoothPc \in {"loop", "break"} /\ PassesDone >= 1) =>
        pts[1] = pts[Len(pts)]
  /\ (InputClosed /\ smoothPc = "returned" /\ iterations >= 1) =>
        /\ Len(smoothed) > Len(latlngs)
        /\ smoothed[1] = smoothed[Len(smoothed)]

\* C2 witness: a closed ring returned after four iterations, which the
\* re-closing step had to close.
C2_Witness ==
  /\ InputClosed
  /\ smoothPc = "returned"
  /\ it = 4
  /\ smoothed[1] = smoothed[Len(smoothed)]
  /\ latlngs[2] # latlngs[Len(latlngs) - 1]

\* C3 as stated: for an input of at most 12,000 points the returned sequence
\* has at most 12,000 points.
C3_AtMostCeiling ==
  (smoothPc = "returned" /\ Len(latlngs) <= MAX_POINTS) =>
     Len(smoothed) <= MAX_POINTS

\* C3 amended: no iteration starts from more than 12,000 points, the loop runs
\* the requested number of iterations unless the count has exceeded 12,000, and
\* for an input of at most 12,000 points the returned sequence has fewer than
\* 24,000 points.
C3_StopsOnceAboveCeiling ==
  /\ (smoothPc = "loop" /\ Len(latlngs) <= MAX_POINTS) => Len(pts) <= MAX_POINTS
  /\ (smoothPc = "returned" /\ Len(latlngs) <= MAX_POINTS) =>
        Len(smoothed) < 2 * MAX_POINTS
  /\ (smoothPc = "returned" /\ Len(latlngs) >= 3 /\ Len(smoothed) <= MAX_POINTS) =>
        it = iterations

\* C3 witness: four iterations were requested and the loop stopped after the
\* first, returning more than 12,000 points.
C3_Witness ==
  /\ smoothPc = "returned"
  /\ iterations = 4
  /\ it = 0
  /\ Len(latlngs) <= MAX_POINTS
  /\ Len(smoothed) > MAX_POINTS

(***************************************************************************)
(* Claims about the zone classifier                                        *)
(***************************************************************************)
Rank(zone) == CHOOSE i \in DOMAIN ZONE_ORDER : ZONE_ORDER[i] = zone

\* the number of boundaries at or below v
BoundariesUpTo(v) ==
  Cardinality({i \in DOMAIN ZONE_BOUNDARIES : ZONE_BOUNDARIES[i] <= v})

\* C4: every value gets exactly the zone of its half-open interval (v < 15 I,
\* 15 <= v < 45 II, 45 <= v < 85 III, 85 <= v < 180 IV, 180 <= v < 240 V,
\* v >= 240 VI), a value equal to a boundary gets the zone above it, and the
\* zone never decreases as the value grows.
C4_ZoneIntervals ==
  /\ \A k \in DOMAIN cells :
       /\ cells[k].zone \in {ZONE_ORDER[i] : i \in DOMAIN ZONE_ORDER}
       /\ Rank(cells[k].zone) = BoundariesUpTo(cells[k].wi) + 1
       /\ (cells[k].zone = "I") <=> (cells[k].wi < 15)
       /\ (cells[k].zone = "II") <=> (15 <= cells[k].wi /\ cells[k].wi < 45)
       /\ (cells[k].zone = "III") <=> (45 <= cells[k].wi /\ cells[k].wi < 85)
       /\ (cells[k].zone = "IV") <=> (85 <= cells[k].wi /\ cells[k].wi < 180)
       /\ (cells[k].zone = "V") <=> (180 <= cells[k].wi /\ cells[k].wi < 240)
       /\ (cells[k].zone = "VI") <=> (cells[k].wi >= 240)
  /\ \A j, k \in DOMAIN cells :
       cells[j].wi <= cells[k].wi => Rank(cells[j].zone) <= Rank(cells[k].zone)

\* C4 witness: a value just below a boundary and the boundary itself were
\* classified, into neighbouring zones.
C4_Witness ==
  /\ Len(cells) = 2
  /\ cells[1].wi = 44 /\ cells[1].zone = "II"
  /\ cells[2].wi = 45 /\ cells[2].zone = "III"

\* C5: a line at a threshold of ZONE_BOUNDARIES has the colour of the zone
\* immediately above that boundary (15 II, 45 III, 85 IV, 180 V, 240 VI), which
\* is the fill colour of a cell whose value is the threshold; a line at a
\* threshold above 240 has zone VI's colour.
C5_LineColorIsUpperZone ==
  \A n \in DOMAIN line :
    /\ \A i \in DOMAIN ZONE_BOUNDARIES :
         line[n].value = ZONE_BOUNDARIES[i] =>
            line[n].color = ZoneColor(ZONE_ORDER[i + 1])
    /\ \A k \in DOMAIN cells :
         (cells[k].wi = line[n].value
            /\ \E i \in DOMAIN ZONE_BOUNDARIES : line[n].value = ZONE_BOUNDARIES[i])
           => line[n].color = cells[k].color
    /\ line[n].value > 240 => line[n].color = ZoneColor("VI")

\* C5 witness: the line at threshold 15 is drawn in zone II's colour beside a
\* cell of value 15.
C5_Witness ==
  /\ Len(line) = 1
  /\ line[1].value = 15
  /\ line[1].color = ZoneColor("II")
  /\ \E k \in DOMAIN cells : cells[k].wi = 15 /\ cells[k].color = line[1].color

(***************************************************************************)
(* Claims about buildRasterFromPoints                                      *)
(***************************************************************************)
LatsOf(ps) == {ps[k].lat : k \in DOMAIN ps}
LonsOf(ps) == {ps[k].lon : k \in DOMAIN ps}

\* a non-empty sample set with one sample for every (lat, lon) of its axes
IsCompleteGrid(ps) ==
  /\ Len(ps) > 0
  /\ \A j, k \in DOMAIN ps :
       (ps[j].lat = ps[k].lat /\ ps[j].lon = ps[k].lon) => j = k
  /\ \A la \in LatsOf(ps), lo \in LonsOf(ps) :
       \E k \in DOMAIN ps : ps[k].lat = la /\ ps[k].lon = lo

\* C6: for a complete regular grid without duplicates, in any order, the raster
\* has height = number of distinct latitudes, width = number of distinct
\* longitudes, both axes sorted ascending, every sample's value in the one
\* cell values[x + y*width] with lats[y], lons[x] the sample's coordinates, no
\* two samples in the same cell, and no cell left at the sentinel.
C6_GridRaster ==
  (rasterPc = "returned" /\ IsCompleteGrid(points)) =>
    /\ Len(raster) = 1
    /\ LET r == raster[1]
       IN  /\ r.height = Cardinality(LatsOf(points))
           /\ r.width = Cardinality(LonsOf(points))
           /\ Len(r.lats) = r.height /\ Len(r.lons) = r.width
           /\ {r.lats[i] : i \in DOMAIN r.lats} = LatsOf(points)
           /\ {r.lons[i] : i \in DOMAIN r.lons} = LonsOf(points)
           /\ \A i, j \in DOMAIN r.lats : i < j => r.lats[i] < r.lats[j]
           /\ \A i, j \in DOMAIN r.lons : i < j => r.lons[i] < r.lons[j]
           /\ Len(r.values) = r.width * r.height
           /\ \A k \in DOMAIN points :
                \E y \in 0..(r.height - 1), x \in 0..(r.width - 1) :
                  /\ r.lats[y + 1] = points[k].lat
                  /\ r.lons[x + 1] = points[k].lon
                  /\ r.values[x + y * r.width + 1] = Num(points[k].wi)
                  /\ \A y2 \in 0..(r.height - 1), x2 \in 0..(r.width - 1) :
                       (r.lats[y2 + 1] = points[k].lat /\ r.lons[x2 + 1] = points[k].lon)
                          => (x2 = x /\ y2 = y)
                  /\ \A j \in DOMAIN points :
                       (j # k) =>
                          ~(r.lats[y + 1] = points[j].lat /\ r.lons[x + 1] = points[j].lon)
           /\ \A c \in DOMAIN r.values : r.values[c] # NaN

\* C6 witness: a 2 x 2 grid given out of row order, with different values, was
\* rasterized.
C6_Witness ==
  /\ rasterPc = "returned"
  /\ IsCompleteGrid(points)
  /\ Len(points) = 4
  /\ points[1].lat > points[2].lat
  /\ points[1].lon # points[2].lon
  /\ points[3].wi # points[4].wi
  /\ Len(raster) = 1
  /\ raster[1].width = 2 /\ raster[1].height = 2

(***************************************************************************)
(* Claims about ClimateMap                                                 *)
(***************************************************************************)
\* the parsed feed holds at least one sample
FeedHasSample ==
  /\ body.parse = "parsed"
  /\ body.json[1].hasData
  /\ \E k \in DOMAIN body.json[1].data :
       body.json[1].data[k].isArray /\ body.json[1].data[k].len > 0

\* C7: when loadData has settled and the component is still mounted,
\* climateData is a dataset and loading is false; it is the generated grid
\* when the fetch rejected, the status was not OK, parsing threw or the feed
\* held no sample, and the fetched feed only when the response was OK and held
\* at least one sample.
C7_LoadAlwaysYieldsDataset ==
  (loadPc = "settled" /\ ~cancelled) =>
    /\ loading = FALSE
    /\ Len(climateData) = 1
    /\ (res.state = "rejected" \/ (res.state = "resolved" /\ ~res.ok)
          \/ body.parse = "threw" \/ (body.parse = "parsed" /\ ~FeedHasSample))
         => climateData[1] = generateGridData
    /\ (res.state = "resolved" /\ res.ok /\ FeedHasSample)
         => climateData = body.json
    /\ climateData[1] # generateGridData =>
         (res.state = "resolved" /\ res.ok /\ FeedHasSample)

\* C7 witness: an OK response whose feed holds year entries but no sample was
\* answered with the generated grid.
C7_Witness ==
  /\ loadPc = "settled"
  /\ ~cancelled
  /\ res.ok
  /\ body.parse = "parsed"
  /\ body.json[1].hasData
  /\ DOMAIN body.json[1].data # {}
  /\ climateData = <<generateGridData>>
  /\ ~loading

KeysOf(cd) == IF Len(cd) = 0 \/ ~cd[1].hasData THEN {} ELSE DOMAIN cd[1].data

\* the key after y in ascending order, the smallest key after the largest
FollowingYear(keys, y) ==
  IF \E k \in keys : k > y
  THEN CHOOSE k \in keys : k > y /\ \A j \in keys : j > y => k <= j
  ELSE CHOOSE k \in keys : \A j \in keys : k <= j

\* the key before y in ascending order, the largest key before the smallest
PrecedingYear(keys, y) ==
  IF \E k \in keys : k < y
  THEN CHOOSE k \in keys : k < y /\ \A j \in keys : j < y => k >= j
  ELSE CHOOSE k \in keys : \A j \in keys : k >= j

\* C10: after a next-year click, a previous-year click or a timer tick on a
\* loaded dataset, currentYear is one of the dataset's year keys and not
\* undefined; next and tick moved to the following year in ascending order
\* (from the last year to the first), previous to the preceding year (from the
\* first to the last), also when the year before was not a key.
C10_YearStaysInDataset ==
  (lastOp.op # "none") =>
    /\ currentYear # Undefined
    /\ currentYear \in KeysOf(climateData)
    /\ (lastOp.op \in {"next", "tick"} /\ lastOp.from \in KeysOf(climateData))
         => currentYear = FollowingYear(KeysOf(climateData), lastOp.from)
    /\ (lastOp.op = "prev" /\ lastOp.from \in KeysOf(climateData))
         => currentYear = PrecedingYear(KeysOf(climateData), lastOp.from)

(***************************************************************************)
(* Claims about ContourLayer                                               *)
(***************************************************************************)
\* a list of two or more pairs of numbers, nothing nested below
IsRingOfPairs(node) ==
  /\ node.t = "arr"
  /\ Len(node.e) >= 2
  /\ \A k \in DOMAIN node.e :
       /\ node.e[k].t = "arr"
       /\ Len(node.e[k].e) = 2
       /\ node.e[k].e[1].t = "num"
       /\ node.e[k].e[2].t = "num"

\* C8: whatever the nested structure, flattening and ring processing do not
\* throw, and every ring flattenRings emits is a list of two or more numeric
\* coordinate pairs that is not further nested.
C8_FlattenNeverThrows ==
  /\ contourPc # "threw"
  /\ \A k \in DOMAIN emitted : IsRingOfPairs(emitted[k])

\* the raster of the layer's points
LayerRaster == buildRasterFromPoints(layerPoints)[1]

HasContours ==
  /\ contourPc = "returned"
  /\ Len(layerPoints) > 0
  /\ LayerRaster.width >= 2
  /\ LayerRaster.height >= 2

Last(q) == q[Len(q)]

\* C9 as stated: every point of every polyline lies in
\* [lats[0], lats[height-1]] x [lons[0], lons[width-1]], index 0 reprojects to
\* the first axis value and index dimension-1 to the last.
C9_InsideBoundingBox ==
  HasContours =>
    LET r == LayerRaster
    IN  /\ \A n \in DOMAIN polylines : \A k \in DOMAIN polylines[n].latlngs :
             LET ll == polylines[n].latlngs[k]
             IN  /\ r.lats[1] <= ll[1] /\ ll[1] <= Last(r.lats)
                 /\ r.lons[1] <= ll[2] /\ ll[2] <= Last(r.lons)
        /\ yToLat(r, NumNode(0)) = Num(r.lats[1])
        /\ xToLon(r, NumNode(0)) = Num(r.lons[1])
        /\ yToLat(r, NumNode((r.height - 1) * One)) = Num(Last(r.lats))
        /\ xToLon(r, NumNode((r.width - 1) * One)) = Num(Last(r.lons))

\* first + (last - first) as the arithmetic computes it
AxisEnd(axis) == FAdd(axis[1], FSub(Last(axis), axis[1]))

\* C9 amended: every point of every polyline lies in [lats[0], L] x [lons[0], M]
\* with L = lats[0] + (lats[height-1] - lats[0]) and M likewise, as computed
\* in floating point; index 0 reprojects to the first axis value and index
\* dimension-1 to L (M); L is lats[height-1] whenever the difference
\* lats[height-1] - lats[0] is computed exactly.
C9_InsideReprojectedBox ==
  HasContours =>
    LET r == LayerRaster
    IN  /\ \A n \in DOMAIN polylines : \A k \in DOMAIN polylines[n].latlngs :
             LET ll == polylines[n].latlngs[k]
             IN  /\ r.lats[1] <= ll[1] /\ ll[1] <= AxisEnd(r.lats)
                 /\ r.lons[1] <= ll[2] /\ ll[2] <= AxisEnd(r.lons)
        /\ yToLat(r, NumNode(0)) = Num(r.lats[1])
        /\ xToLon(r, NumNode(0)) = Num(r.lons[1])
        /\ yToLat(r, NumNode((r.height - 1) * One)) = Num(AxisEnd(r.lats))
        /\ xToLon(r, NumNode((r.width - 1) * One)) = Num(AxisEnd(r.lons))
        /\ (FSub(Last(r.lats), r.lats[1]) = Last(r.lats) - r.lats[1])
              => AxisEnd(r.lats) = Last(r.lats)
        /\ (FSub(Last(r.lons), r.lons[1]) = Last(r.lons) - r.lons[1])
              => AxisEnd(r.lons) = Last(r.lons)

\* C9 witness: a smoothed polyline of a ring with indices below 0 and above
\* dimension-1 that touches both ends of the latitude range, on axes whose
\* computed end is not the last axis value.
C9_Witness ==
  /\ HasContours
  /\ Len(polylines) = 1
  /\ Len(polylines[1].latlngs) >= 4
  /\ AxisEnd(LayerRaster.lats) # Last(LayerRaster.lats)
  /\ \E k \in DOMAIN cs[1].coordinates.e[1].e[1].e :
       cs[1].coordinates.e[1].e[1].e[k].e[2].v < 0
  /\ \E k \in DOMAIN cs[1].coordinates.e[1].e[1].e :
       cs[1].coordinates.e[1].e[1].e[k].e[2].v > (LayerRaster.height - 1) * One
  /\ \E k \in DOMAIN polylines[1].latlngs :
       polylines[1].latlngs[k][1] = LayerRaster.lats[1]
  /\ \E k \in DOMAIN polylines[1].latlngs :
       polylines[1].latlngs[k][1] = AxisEnd(LayerRaster.lats)

====
